---- MODULE Spec2Model ----
(***************************************************************************)
(* Model of fontc's feature compilation (fontbe/src/features.rs):          *)
(*   - FeaVariationInfo::resolve_variable_metric  (SpecMetric)             *)
(*   - create_kerning_fea                         (SpecKern)               *)
(*   - InMemoryResolver::get_contents             (SpecResolver)           *)
(*   - integrate_kerning and FeatureWork::exec    (SpecExec)               *)
(* Each specification drives one component; the variables of the other     *)
(* components stay at their idle values.                                   *)
(***************************************************************************)
EXTENDS Integers, Sequences, FiniteSets, TLC

VARIABLES
    \* ---- resolve_variable_metric ----
    static_metadata,   \* [axes, variation_model] : the &StaticMetadata of FeaVariationInfo
    values,            \* the input HashMap<NormalizedLocation, i16>
    rvm_pc,            \* position inside resolve_variable_metric
    point_seqs,        \* HashMap<NormalizedLocation, Vec<f64>>
    unchecked,         \* keys of point_seqs the support loop has not visited yet
    deltas,            \* Vec<(region, f64)> obtained from var_model.deltas
    default_value,     \* i16
    fears_deltas,      \* Vec<(VariationRegion, i16)> under construction
    region_idx,        \* position of the `for (region, value)` loop in deltas
    rvm_result,        \* the Result returned to the caller
    \* ---- create_kerning_fea ----
    kerning,           \* the &Kerning argument: [groups, kerns]
    kern_pc,           \* position inside create_kerning_fea
    kerned_locations,  \* Vec<&NormalizedLocation>
    fea,               \* the String under construction
    pos_strings,       \* HashMap<&NormalizedLocation, String>
    pair_idx,          \* position of the loop over kerning.kerns
    kern_run,          \* which run on this Kerning value this is
    first_fea,         \* the text the previous run on the same value returned
    \* ---- InMemoryResolver::get_contents and the file system ----
    fs,                \* canonical path -> [kind, content, utf8]
    resolver,          \* the InMemoryResolver: [content_path, content, include_dir]
    rel_path,          \* the path of the last get_contents request
    get_result,        \* what that request returned
    \* ---- FeatureWork::exec ----
    flags,             \* context.flags: subset of {EMIT_DEBUG, EMIT_IR}
    ir_features,       \* context.ir.features: the authored Features
    glyph_order,       \* context.ir.glyph_order
    exec_pc,           \* position inside exec
    features,          \* the local `features`: the effective Features
    compile_result,    \* the Result of self.compile
    outputs,           \* context.gpos / gsub / gdef: slot -> number of writes
    debug_fea,         \* the debug file features.fea
    marker_file,       \* the completion marker in persistent storage
    ir_reads,          \* the context.ir entries exec has read
    compile_calls,     \* how often self.compile was invoked
    log,               \* the order of the writes exec made
    exec_result        \* the Result exec returned

metricVars == <<static_metadata, values, rvm_pc, point_seqs, unchecked, deltas,
                default_value, fears_deltas, region_idx, rvm_result>>

kernVars == <<kerning, kern_pc, kerned_locations, fea, pos_strings, pair_idx,
              kern_run, first_fea>>

resolverVars == <<fs, resolver, rel_path, get_result>>

execVars == <<flags, ir_features, glyph_order, exec_pc, features, compile_result,
              outputs, debug_fea, marker_file, ir_reads, compile_calls, log,
              exec_result>>

vars == <<metricVars, kernVars, resolverVars, execVars>>

notMetric   == <<kernVars, resolverVars, execVars>>
notKern     == <<metricVars, resolverVars, execVars>>
notResolver == <<metricVars, kernVars, execVars>>
notExec     == <<metricVars, kernVars, resolverVars>>


(***************************************************************************)
(* Exact arithmetic.  Coordinates are kept in half units (1 stands for     *)
(* 0.5), scalars and deltas are reduced fractions <<num, den>>, den > 0.   *)
(* All values met in the model are exactly representable in f32 and f64.   *)
(***************************************************************************)
Abs(x) == IF x < 0 THEN -x ELSE x

RECURSIVE Gcd(_, _)
Gcd(a, b) == IF b = 0 THEN a ELSE Gcd(b, a % b)

Frac(n, d) ==
    LET g == Gcd(Abs(n), Abs(d))
        s == IF d < 0 THEN -1 ELSE 1
    IN  <<(s * n) \div g, (s * d) \div g>>

FInt(n)     == <<n, 1>>
FAdd(a, b)  == Frac(a[1] * b[2] + b[1] * a[2], a[2] * b[2])
FSub(a, b)  == Frac(a[1] * b[2] - b[1] * a[2], a[2] * b[2])
FMul(a, b)  == Frac(a[1] * b[1], a[2] * b[2])
FLe(a, b)   == a[1] * b[2] <= b[1] * a[2]
FAbs(a)     == <<Abs(a[1]), a[2]>>
FZero       == <<0, 1>>
FOne        == <<1, 1>>

RECURSIVE FSum(_)
FSum(s) == IF s = <<>> THEN FZero ELSE FAdd(Head(s), FSum(Tail(s)))

\* The range of the i16 the trait signature fixes for samples, default and deltas.
I16Min == -32768
I16Max == 32767

\* Rust's float-to-int `as` cast saturates.
SaturateI16(n) == IF n < I16Min THEN I16Min ELSE IF n > I16Max THEN I16Max ELSE n

\* A rounding to the nearest integer with ties away from zero (not what OtRound does).
RoundHalfAwayI16(x) ==
    SaturateI16(IF x[1] >= 0 THEN (2 * x[1] + x[2]) \div (2 * x[2])
                ELSE -((2 * (-x[1]) + x[2]) \div (2 * x[2])))

\* write_fonts::OtRound for f32/f64 -> i16: (self + 0.5).floor() as i16.
OtRoundI16(x) == SaturateI16((2 * x[1] + x[2]) \div (2 * x[2]))

(***************************************************************************)
(* Locations, tents and regions.                                           *)
(***************************************************************************)
\* NormalizedLocation: a map from axis tag to coordinate; a missing axis reads as 0.
LocGet(loc, tag) == IF tag \in DOMAIN loc THEN loc[tag] ELSE 0

ZeroTent == <<0, 0, 0>>

\* Tent::has_non_zero
HasNonZero(tent) == tent # ZeroTent

\* VariationRegion::is_default: no axis has a non-zero tent.
IsDefault(region) == \A tag \in DOMAIN region : ~HasNonZero(region[tag])

\* One axis of VariationRegion::scalar_at (the OpenType tent function).
TentScalar(tent, v) ==
    LET min == tent[1]  peak == tent[2]  max == tent[3]
    IN  IF peak = 0 \/ v = peak THEN FOne
        ELSE IF v <= min \/ max <= v THEN FZero
        ELSE IF v < peak THEN Frac(v - min, peak - min)
        ELSE Frac(max - v, max - peak)

RECURSIVE FProd(_, _, _)
FProd(region, loc, tags) ==
    IF tags = {} THEN FOne
    ELSE LET t == CHOOSE x \in tags : TRUE
         IN  FMul(TentScalar(region[t], LocGet(loc, t)), FProd(region, loc, tags \ {t}))

\* VariationRegion::scalar_at
ScalarAt(region, loc) == FProd(region, loc, DOMAIN region)

(***************************************************************************)
(* The variation model (fontir's VariationModel), given to this code       *)
(* through static_metadata.  A model is its default location and its       *)
(* (location, region) entries in the model's own order.                    *)
(***************************************************************************)
\* VariationModel::supports
Supports(var_model, loc) ==
    \E i \in 1..Len(var_model.entries) : var_model.entries[i].loc = loc

RECURSIVE WeightedSum(_, _)
\* sum over the regions already resolved of scalar_at(loc) * delta
WeightedSum(resolved, loc) ==
    IF resolved = <<>> THEN FZero
    ELSE FAdd(FMul(ScalarAt(Head(resolved).region, loc), Head(resolved).values[1]),
              WeightedSum(Tail(resolved), loc))

RECURSIVE DeltasUpTo(_, _, _)
DeltasUpTo(var_model, pseqs, i) ==
    IF i = 0 THEN <<>>
    ELSE LET prev == DeltasUpTo(var_model, pseqs, i - 1)
             e    == var_model.entries[i]
         IN  IF e.loc \notin DOMAIN pseqs THEN prev
             ELSE Append(prev, [region |-> e.region,
                                values |-> <<FSub(pseqs[e.loc][1],
                                                  WeightedSum(prev, e.loc))>>])

\* VariationModel::deltas: one (region, Vec) per model location that has a
\* point sequence, in model order; the default location must be present.
ModelDeltas(var_model, pseqs) ==
    IF DOMAIN pseqs = {} THEN [ok |-> TRUE, list |-> <<>>]
    ELSE IF var_model.default \notin DOMAIN pseqs
         THEN [ok |-> FALSE, list |-> <<>>]
         ELSE [ok |-> TRUE, list |-> DeltasUpTo(var_model, pseqs, Len(var_model.entries))]

WGHT == "wght"
WDTH == "wdth"

L(wght) == [wght |-> wght]
L2(wght, wdth) == [wght |-> wght, wdth |-> wdth]
R(wghtTent, wdthTent) == [wght |-> wghtTent, wdth |-> wdthTent]

\* tests::weight_variable_static_metadata: masters at wght -1, 0, 1 and a
\* point axis wdth.
WeightModel ==
    [default |-> L(0),
     entries |-> << [loc |-> L(0),  region |-> R(ZeroTent, ZeroTent)],
                    [loc |-> L(-2), region |-> R(<<-2, -2, 0>>, ZeroTent)],
                    [loc |-> L(2),  region |-> R(<<0, 2, 2>>, ZeroTent)] >>]

\* Masters at the default, at wght=1 and at (wght=0.5, wdth=1): the wght=1
\* region has scalar 1/2 at the third master, so its delta can be fractional.
CornerModel ==
    [default |-> L2(0, 0),
     entries |-> << [loc |-> L2(0, 0), region |-> R(ZeroTent, ZeroTent)],
                    [loc |-> L2(2, 0), region |-> R(<<0, 2, 2>>, ZeroTent)],
                    [loc |-> L2(1, 2), region |-> R(<<0, 1, 2>>, <<0, 2, 2>>)] >>]

\* A model that is inconsistent with the font's axis list: its last region
\* carries no tent for wdth.
SparseTentModel ==
    [default |-> L(0),
     entries |-> << [loc |-> L(0),  region |-> R(ZeroTent, ZeroTent)],
                    [loc |-> L(-2), region |-> R(<<-2, -2, 0>>, ZeroTent)],
                    [loc |-> L(2),  region |-> [wght |-> <<0, 2, 2>>]] >>]

FontAxes == <<WGHT, WDTH>>

StaticMetadatas ==
    { [axes |-> FontAxes, variation_model |-> m] :
        m \in {WeightModel, CornerModel, SparseTentModel} }

ModelLocations(var_model) ==
    { var_model.entries[i].loc : i \in 1..Len(var_model.entries) }

\* A location no model above has a master at.
UnsupportedLoc == L(1)

\* Bounds of the inputs.
MaxSamples == 3
SmallSample == 1

SampleValues == {I16Min, I16Max, 10, 15, 20} \cup ((-SmallSample)..SmallSample)

CandidateLocations(sm) == ModelLocations(sm.variation_model) \cup {UnsupportedLoc}

InputMaps(sm) ==
    UNION { [S -> SampleValues] :
              S \in { T \in SUBSET CandidateLocations(sm) : Cardinality(T) <= MaxSamples } }

(***************************************************************************)
(* FeaVariationInfo::resolve_variable_metric                               *)
(***************************************************************************)
\* F2Dot14::from_f32 of a coordinate in half units: 0.5 is 8192 / 16384.
ToF2Dot14(c) == c * (16384 \div 2)

\* Tent::to_region_axis_coords
ToRegionAxisCoords(tent) == <<ToF2Dot14(tent[1]), ToF2Dot14(tent[2]), ToF2Dot14(tent[3])>>

NoResult == [kind |-> "None"]
OkResult(d, ds) == [kind |-> "Ok", default |-> d, deltas |-> ds]
UnsupportedLocationError(loc) == [kind |-> "Err", err |-> "UnsupportedLocation", loc |-> loc]
MissingTentError(tag) == [kind |-> "Err", err |-> "MissingTent", tag |-> tag]
DeltaError == [kind |-> "Err", err |-> "DeltaError"]

\* lines 166-169: every sample becomes a 1-element Vec<f64>.
BuildPointSeqs ==
    /\ rvm_pc = "start"
    /\ point_seqs' = [loc \in DOMAIN values |-> <<FInt(values[loc])>>]
    /\ unchecked' = DOMAIN values
    /\ rvm_pc' = "check"
    /\ UNCHANGED <<static_metadata, values, deltas, default_value, fears_deltas,
                   region_idx, rvm_result>>
    /\ UNCHANGED notMetric

\* A variant of the support loop that logs and goes on instead of returning.
CheckLocationNoReturn ==
    /\ rvm_pc = "check"
    /\ \E loc \in unchecked : unchecked' = unchecked \ {loc}
    /\ UNCHANGED <<static_metadata, values, rvm_pc, point_seqs, deltas, default_value,
                   fears_deltas, region_idx, rvm_result>>
    /\ UNCHANGED notMetric

\* lines 173-177: one iteration of `for loc in point_seqs.keys()`; the HashMap
\* yields its keys in any order.
CheckLocation ==
    /\ rvm_pc = "check"
    /\ \E loc \in unchecked :
         IF ~Supports(static_metadata.variation_model, loc)
         THEN /\ rvm_result' = UnsupportedLocationError(loc)
              /\ rvm_pc' = "err"
              /\ UNCHANGED unchecked
         ELSE /\ unchecked' = unchecked \ {loc}
              /\ UNCHANGED <<rvm_pc, rvm_result>>
    /\ UNCHANGED <<static_metadata, values, point_seqs, deltas, default_value,
                   fears_deltas, region_idx>>
    /\ UNCHANGED notMetric

\* lines 180-187: var_model.deltas(&point_seqs)?, one value per region.
ComputeDeltas ==
    /\ rvm_pc = "check"
    /\ unchecked = {}
    /\ LET r == ModelDeltas(static_metadata.variation_model, point_seqs)
       IN  IF r.ok
           THEN /\ deltas' = [i \in 1..Len(r.list) |->
                                [region |-> r.list[i].region, value |-> r.list[i].values[1]]]
                /\ rvm_pc' = "default"
                /\ UNCHANGED rvm_result
           ELSE /\ rvm_result' = DeltaError
                /\ rvm_pc' = "err"
                /\ UNCHANGED deltas
    /\ UNCHANGED <<static_metadata, values, point_seqs, unchecked, default_value,
                   fears_deltas, region_idx>>
    /\ UNCHANGED notMetric

RECURSIVE DefaultTerms(_, _)
\* lines 192-198: scaler * value for every region whose scaler at the default is not 0.
DefaultTerms(ds, default_loc) ==
    IF ds = <<>> THEN <<>>
    ELSE LET scaler == ScalarAt(Head(ds).region, default_loc)
             rest   == DefaultTerms(Tail(ds), default_loc)
         IN  IF scaler = FZero THEN rest
             ELSE <<FMul(scaler, Head(ds).value)>> \o rest

\* lines 190-200: the default is rounded once, after the summation.
DefaultValueOf(ds, default_loc) == OtRoundI16(FSum(DefaultTerms(ds, default_loc)))

ComputeDefault ==
    /\ rvm_pc = "default"
    /\ default_value' = DefaultValueOf(deltas, static_metadata.variation_model.default)
    /\ fears_deltas' = <<>>
    /\ region_idx' = 1
    /\ rvm_pc' = "regions"
    /\ UNCHANGED <<static_metadata, values, point_seqs, unchecked, deltas, rvm_result>>
    /\ UNCHANGED notMetric

\* The declared axes a region has no tent for, in declared order.
MissingAxes(region, axes) ==
    SelectSeq(axes, LAMBDA tag : tag \notin DOMAIN region)

\* lines 207-213 when every tent is present.
RegionAxes(region, axes) ==
    [k \in 1..Len(axes) |-> ToRegionAxisCoords(region[axes[k]])]

\* A variant that fills a missing tent with the default tent.
RegionAxesDefaulted(region, axes) ==
    [k \in 1..Len(axes) |->
        ToRegionAxisCoords(IF axes[k] \in DOMAIN region THEN region[axes[k]] ELSE ZeroTent)]

\* A variant of the loop that does not filter the default regions out.
BuildRegionKeepDefault ==
    /\ rvm_pc = "regions"
    /\ region_idx <= Len(deltas)
    /\ LET region == deltas[region_idx].region
           value  == deltas[region_idx].value
           axes   == static_metadata.axes
       IN  /\ fears_deltas' = Append(fears_deltas,
                                [region_axes |-> RegionAxesDefaulted(region, axes),
                                 delta |-> OtRoundI16(value)])
           /\ region_idx' = region_idx + 1
           /\ UNCHANGED <<rvm_pc, rvm_result>>
    /\ UNCHANGED <<static_metadata, values, point_seqs, unchecked, deltas, default_value>>
    /\ UNCHANGED notMetric

\* A variant of the loop that defaults a missing tent instead of failing.
BuildRegionDefaulting ==
    /\ rvm_pc = "regions"
    /\ region_idx <= Len(deltas)
    /\ LET region == deltas[region_idx].region
           value  == deltas[region_idx].value
           axes   == static_metadata.axes
       IN  /\ fears_deltas' =
                 IF IsDefault(region) THEN fears_deltas
                 ELSE Append(fears_deltas,
                             [region_axes |-> RegionAxesDefaulted(region, axes),
                              delta |-> OtRoundI16(value)])
           /\ region_idx' = region_idx + 1
           /\ UNCHANGED <<rvm_pc, rvm_result>>
    /\ UNCHANGED <<static_metadata, values, point_seqs, unchecked, deltas, default_value>>
    /\ UNCHANGED notMetric

\* lines 204-218: one iteration over deltas; default regions are filtered out,
\* a region without a tent for a declared axis ends the call.
BuildRegion ==
    /\ rvm_pc = "regions"
    /\ region_idx <= Len(deltas)
    /\ LET region  == deltas[region_idx].region
           value   == deltas[region_idx].value
           axes    == static_metadata.axes
           missing == MissingAxes(region, axes)
       IN  IF IsDefault(region)
           THEN /\ region_idx' = region_idx + 1
                /\ UNCHANGED <<fears_deltas, rvm_pc, rvm_result>>
           ELSE IF missing # <<>>
           THEN /\ rvm_result' = MissingTentError(Head(missing))
                /\ rvm_pc' = "err"
                /\ UNCHANGED <<fears_deltas, region_idx>>
           ELSE /\ fears_deltas' = Append(fears_deltas,
                                     [region_axes |-> RegionAxes(region, axes),
                                      delta |-> OtRoundI16(value)])
                /\ region_idx' = region_idx + 1
                /\ UNCHANGED <<rvm_pc, rvm_result>>
    /\ UNCHANGED <<static_metadata, values, point_seqs, unchecked, deltas, default_value>>
    /\ UNCHANGED notMetric

\* line 220
ReturnOk ==
    /\ rvm_pc = "regions"
    /\ region_idx > Len(deltas)
    /\ rvm_result' = OkResult(default_value, fears_deltas)
    /\ rvm_pc' = "ok"
    /\ UNCHANGED <<static_metadata, values, point_seqs, unchecked, deltas, default_value,
                   fears_deltas, region_idx>>
    /\ UNCHANGED notMetric

MetricIdle ==
    /\ static_metadata = [axes |-> FontAxes, variation_model |-> WeightModel]
    /\ values = <<>>
    /\ rvm_pc = "idle"
    /\ point_seqs = <<>>
    /\ unchecked = {}
    /\ deltas = <<>>
    /\ default_value = 0
    /\ fears_deltas = <<>>
    /\ region_idx = 0
    /\ rvm_result = NoResult

MetricInit ==
    /\ static_metadata \in StaticMetadatas
    /\ values \in InputMaps(static_metadata)
    /\ rvm_pc = "start"
    /\ point_seqs = <<>>
    /\ unchecked = {}
    /\ deltas = <<>>
    /\ default_value = 0
    /\ fears_deltas = <<>>
    /\ region_idx = 0
    /\ rvm_result = NoResult

MetricNext ==
    \/ BuildPointSeqs
    \/ CheckLocation
    \/ ComputeDeltas
    \/ ComputeDefault
    \/ BuildRegion
    \/ ReturnOk


(***************************************************************************)
(* Properties of resolve_variable_metric (checked under SpecMetric).       *)
(***************************************************************************)
Returned == rvm_pc \in {"ok", "err"}

HasUnsupported ==
    \E loc \in DOMAIN values : ~Supports(static_metadata.variation_model, loc)

\* C1: an input with a location the model does not support fails with the
\* unsupported-location error (naming such a location) and returns no
\* (default, deltas); no delta is computed unless every input location passed
\* the support check.
C1_UnsupportedLocationFails ==
    /\ (Returned /\ HasUnsupported) =>
          /\ rvm_result.kind = "Err"
          /\ rvm_result.err = "UnsupportedLocation"
          /\ rvm_result.loc \in DOMAIN values
          /\ ~Supports(static_metadata.variation_model, rvm_result.loc)
    /\ rvm_pc \in {"default", "regions", "ok"} =>
          /\ unchecked = {}
          /\ ~HasUnsupported
    /\ HasUnsupported => (deltas = <<>> /\ fears_deltas = <<>>)

C1_Witness ==
    /\ rvm_pc = "err"
    /\ rvm_result.kind = "Err"
    /\ rvm_result.err = "UnsupportedLocation"
    /\ Cardinality(DOMAIN values) = 3
    /\ unchecked # DOMAIN values
    /\ \E loc \in DOMAIN values : values[loc] = 20

\* The weight of a returned VariationRegion (F2Dot14 tents, one per declared
\* axis) at a location.
RECURSIVE ReturnedWeight(_, _, _, _)
ReturnedWeight(region_axes, axes, loc, k) ==
    IF k = 0 THEN FOne
    ELSE FMul(TentScalar(region_axes[k], ToF2Dot14(LocGet(loc, axes[k]))),
              ReturnedWeight(region_axes, axes, loc, k - 1))

RECURSIVE Reconstructed(_, _, _)
Reconstructed(ds, axes, loc) ==
    IF ds = <<>> THEN FZero
    ELSE FAdd(FMul(ReturnedWeight(Head(ds).region_axes, axes, loc, Len(axes)),
                   FInt(Head(ds).delta)),
              Reconstructed(Tail(ds), axes, loc))

SummedTerms(ds, axes, loc) ==
    Cardinality({k \in 1..Len(ds) :
                    ReturnedWeight(ds[k].region_axes, axes, loc, Len(axes)) # FZero})

ReproducesAt(loc) ==
    LET axes  == static_metadata.axes
        ds    == rvm_result.deltas
        got   == FAdd(FInt(rvm_result.default), Reconstructed(ds, axes, loc))
    IN  FLe(FAbs(FSub(got, FInt(values[loc]))), Frac(SummedTerms(ds, axes, loc), 2))

KernTestInput == (L(-2) :> 10) @@ (L(0) :> 15) @@ (L(2) :> 20)

ConcreteCase ==
    (static_metadata.variation_model = WeightModel /\ values = KernTestInput) =>
        /\ rvm_result.default = 15
        /\ Len(rvm_result.deltas) = 2
        /\ rvm_result.default + rvm_result.deltas[1].delta = 10
        /\ rvm_result.default + rvm_result.deltas[2].delta = 20

\* C2: when every input location is supported, the returned default plus the
\* weighted sum of the returned deltas reproduces every sample within 0.5 per
\* summed term; samples {-1: 10, 0: 15, 1: 20} give 15 and deltas that, added
\* to it, give 10 and 20 in that order.
C2_ReproducesSamples ==
    rvm_pc = "ok" =>
        /\ \A loc \in DOMAIN values : ReproducesAt(loc)
        /\ ConcreteCase

\* Every unrounded delta of the model fits the i16 of the result.
DeltasFitI16 ==
    \A i \in 1..Len(deltas) :
        /\ FLe(FInt(I16Min), deltas[i].value)
        /\ FLe(deltas[i].value, FInt(I16Max))

\* C2, on the inputs whose deltas fit an i16.
C2_ReproducesWhenDeltasFit ==
    (rvm_pc = "ok" /\ DeltasFitI16) =>
        /\ \A loc \in DOMAIN values : ReproducesAt(loc)
        /\ ConcreteCase

C2_ConcreteWitness == rvm_pc = "ok" /\ values = KernTestInput

NonDefault(ds) == SelectSeq(ds, LAMBDA d : ~IsDefault(d.region))

\* C3: on success the returned list is the model's (region, delta) sequence
\* without its default regions, in the model's order, nothing else dropped or
\* added; no returned region is all (0,0,0); every returned region has one
\* tent per declared axis, in declared order.
C3_ReturnedDeltasAreModelOrder ==
    rvm_pc = "ok" =>
        LET kept == NonDefault(deltas)
            axes == static_metadata.axes
            out  == rvm_result.deltas
        IN  /\ Len(out) = Len(kept)
            /\ \A k \in 1..Len(out) :
                  /\ Len(out[k].region_axes) = Len(axes)
                  /\ \A a \in 1..Len(axes) :
                        /\ axes[a] \in DOMAIN kept[k].region
                        /\ out[k].region_axes[a] = ToRegionAxisCoords(kept[k].region[axes[a]])
                  /\ \E a \in 1..Len(axes) : out[k].region_axes[a] # ZeroTent
                  /\ out[k].delta = OtRoundI16(kept[k].value)

C3_Witness ==
    /\ rvm_pc = "ok"
    /\ Len(deltas) = 3
    /\ Len(rvm_result.deltas) = 2
    /\ rvm_result.deltas[1].region_axes # rvm_result.deltas[2].region_axes

\* The first non-default region of ds that lacks a tent for a declared axis.
FirstLacking(ds, axes) ==
    LET bad == SelectSeq(NonDefault(ds), LAMBDA d : MissingAxes(d.region, axes) # <<>>)
    IN  bad

\* C4: when a non-default region from the model has no tent for a declared
\* axis the call fails with the missing-tent error naming that axis; nothing
\* is returned and the tent is not defaulted.
C4_MissingTentFails ==
    (Returned /\ FirstLacking(deltas, static_metadata.axes) # <<>>) =>
        /\ rvm_result.kind = "Err"
        /\ rvm_result.err = "MissingTent"
        /\ rvm_result.tag =
              Head(MissingAxes(Head(FirstLacking(deltas, static_metadata.axes)).region,
                               static_metadata.axes))

C4_Witness ==
    /\ rvm_pc = "err"
    /\ rvm_result.kind = "Err"
    /\ rvm_result.err = "MissingTent"
    /\ rvm_result.tag = WDTH
    /\ Len(fears_deltas) = 1

(***************************************************************************)
(* create_kerning_fea.  Feature text is a string, as in the source.        *)
(***************************************************************************)
\* KernParticipant
Glyph(name) == [kind |-> "Glyph", name |-> name]
Group(name) == [kind |-> "Group", name |-> name]
IsGroup(kp) == kp.kind = "Group"

\* Kerning::is_empty
KerningIsEmpty(k) == k.kerns = <<>>

\* Tags in their byte order, the order a location iterates its axes in.
TagsInOrder == <<WDTH, WGHT>>
TagRank(tag) == CHOOSE i \in 1..Len(TagsInOrder) : TagsInOrder[i] = tag

\* The (tag, coordinate) entries of a location, in tag order.
LocEntries(loc) ==
    LET tags == SelectSeq(TagsInOrder, LAMBDA t : t \in DOMAIN loc)
    IN  [k \in 1..Len(tags) |-> <<TagRank(tags[k]), loc[tags[k]]>>]

RECURSIVE EntriesLess(_, _)
EntriesLess(a, b) ==
    IF a = <<>> THEN b # <<>>
    ELSE IF b = <<>> THEN FALSE
    ELSE IF Head(a)[1] # Head(b)[1] THEN Head(a)[1] < Head(b)[1]
    ELSE IF Head(a)[2] # Head(b)[2] THEN Head(a)[2] < Head(b)[2]
    ELSE EntriesLess(Tail(a), Tail(b))

\* Ord for NormalizedLocation: lexicographic over its entries.
LocLess(a, b) == EntriesLess(LocEntries(a), LocEntries(b))

RECURSIVE InsertSorted(_, _)
InsertSorted(sorted, loc) ==
    IF sorted = <<>> THEN <<loc>>
    ELSE IF LocLess(loc, Head(sorted)) THEN <<loc>> \o sorted
    ELSE <<Head(sorted)>> \o InsertSorted(Tail(sorted), loc)

\* A variant of line 334 that leaves the Vec in the HashSet's order.
UnsortedLocations(locs) == locs

RECURSIVE SortedLocations(_)
\* line 334: kerned_locations.sort()
SortedLocations(locs) ==
    IF locs = <<>> THEN <<>>
    ELSE InsertSorted(SortedLocations(Tail(locs)), Head(locs))

\* line 332: the set of every location any kern has a value at.
KernedLocationSet(k) ==
    UNION { DOMAIN k.kerns[i].values : i \in 1..Len(k.kerns) }

\* The orders a HashSet of these elements can be iterated in.
IterationOrders(S) ==
    { h \in [1..Cardinality(S) -> S] : { h[i] : i \in 1..Cardinality(S) } = S }

\* line 352
GeneratedMarker == "\n\n# fontc generated kerning\n\n"

\* String::remove(len - 1)
RemoveLast(text) == SubSeq(text, 1, Len(text) - 1)

RECURSIVE MembersText(_)
MembersText(members) ==
    IF members = <<>> THEN ""
    ELSE Head(members) \o " " \o MembersText(Tail(members))

\* lines 363-371: @classname = [glyph1 glyph2];
ClassDecl(group) ==
    RemoveLast("@" \o group.name \o " = [" \o MembersText(group.members)) \o "];\n"

RECURSIVE GroupsText(_)
GroupsText(groups) ==
    IF groups = <<>> THEN ""
    ELSE ClassDecl(Head(groups)) \o GroupsText(Tail(groups))

\* lines 300-308
Identifier(kp) == IF IsGroup(kp) THEN "@" \o kp.name ELSE kp.name

\* A variant of enumerated that also enumerates class to class pairs.
EnumeratedEitherGroup(kp1, kp2) == IsGroup(kp1) \/ IsGroup(kp2)

\* lines 311-317
Enumerated(kp1, kp2) == IsGroup(kp1) # IsGroup(kp2)

\* Display of an f32 that holds a multiple of one half, given in half units.
FmtHalves(c) ==
    IF c % 2 = 0 THEN ToString(c \div 2)
    ELSE (IF c < 0 THEN "-" ELSE "") \o ToString(Abs(c) \div 2) \o ".5"

RECURSIVE JoinEntries(_, _)
JoinEntries(loc, tags) ==
    IF tags = <<>> THEN ""
    ELSE Head(tags) \o "=" \o FmtHalves(loc[Head(tags)]) \o "n"
         \o (IF Len(tags) > 1 THEN "," ELSE "") \o JoinEntries(loc, Tail(tags))

\* lines 402-406: tag=valuen entries joined by ","
LocString(loc) == JoinEntries(loc, SelectSeq(TagsInOrder, LAMBDA t : t \in DOMAIN loc))

\* lines 395-399: the pair's own value, else 0
AdvanceAdjustment(vals, loc) == IF loc \in DOMAIN vals THEN vals[loc] ELSE 0

RECURSIVE EmitLocations(_, _, _, _)
\* lines 393-412: one `<loc>:<value> ` per kerned location; pos_strings caches
\* the location strings.
EmitLocations(text, cache, vals, locs) ==
    IF locs = <<>> THEN [fea |-> text, pos_strings |-> cache]
    ELSE LET loc    == Head(locs)
             cache2 == IF loc \in DOMAIN cache THEN cache
                       ELSE cache @@ (loc :> LocString(loc))
         IN  EmitLocations(text \o cache2[loc] \o ":"
                                \o ToString(AdvanceAdjustment(vals, loc)) \o " ",
                           cache2, vals, Tail(locs))

\* lines 381-414: the rule of one kerning pair appended to the text.
EmitPairRule(text, cache, pair, locs) ==
    LET head == text \o "  "
                \o (IF Enumerated(pair.p1, pair.p2) THEN "enum " ELSE "")
                \o "pos " \o Identifier(pair.p1) \o " " \o Identifier(pair.p2) \o " ("
        body == EmitLocations(head, cache, pair.values, locs)
    IN  [fea |-> RemoveLast(body.fea) \o ");\n", pos_strings |-> body.pos_strings]

(***************************************************************************)
(* The Kerning values create_kerning_fea is run on.                        *)
(***************************************************************************)
GroupA == "public.kern1.A"
GroupV == "public.kern2.V"

Groupings ==
    { <<>>,
      << [name |-> GroupA, members |-> <<"A", "Aacute">>],
         [name |-> GroupV, members |-> <<"V">>] >> }

PairKeys ==
    { <<Glyph("A"), Glyph("V")>>, <<Glyph("A"), Group(GroupV)>>,
      <<Group(GroupA), Glyph("V")>>, <<Group(GroupA), Group(GroupV)>> }

KernLocations == { L2(2, 0), L2(1, 2) }
KernValues == { -5, 7 }

ValueMaps == UNION { [S -> KernValues] : S \in SUBSET KernLocations }

MaxPairs == 2

Pair(key, vals) == [p1 |-> key[1], p2 |-> key[2], values |-> vals]

\* The pair maps of n entries with distinct keys, in their stored order.
KernsOfLen(n) ==
    { [i \in 1..n |-> Pair(ks[i], vs[i])] :
        ks \in { k \in [1..n -> PairKeys] : \A i, j \in 1..n : i # j => k[i] # k[j] },
        vs \in [1..n -> ValueMaps] }

Kernings ==
    { [groups |-> g, kerns |-> k] :
        g \in Groupings, k \in UNION { KernsOfLen(n) : n \in 0..MaxPairs } }

(***************************************************************************)
(* create_kerning_fea, step by step.                                       *)
(***************************************************************************)
\* lines 332-334: collect into a HashSet, move to a Vec in the set's
\* iteration order, sort.
CollectLocations ==
    /\ kern_pc = "start"
    /\ \E h \in IterationOrders(KernedLocationSet(kerning)) :
          kerned_locations' = SortedLocations(h)
    /\ kern_pc' = "marker"
    /\ UNCHANGED <<kerning, fea, pos_strings, pair_idx, kern_run, first_fea>>
    /\ UNCHANGED notKern

\* lines 350-356: the marker comment, and the early return on empty kerning.
PushMarker ==
    /\ kern_pc = "marker"
    /\ fea' = GeneratedMarker
    /\ kern_pc' = IF KerningIsEmpty(kerning) THEN "done" ELSE "groups"
    /\ UNCHANGED <<kerning, kerned_locations, pos_strings, pair_idx, kern_run, first_fea>>
    /\ UNCHANGED notKern

\* lines 362-379: the class declarations, then the feature block is opened.
EmitGroups ==
    /\ kern_pc = "groups"
    /\ fea' = fea \o GroupsText(kerning.groups) \o "\n\n" \o "feature kern {\n"
    /\ pos_strings' = <<>>
    /\ pair_idx' = 1
    /\ kern_pc' = "pairs"
    /\ UNCHANGED <<kerning, kerned_locations, kern_run, first_fea>>
    /\ UNCHANGED notKern

\* lines 380-415: one iteration of the loop over kerning.kerns.
EmitPair ==
    /\ kern_pc = "pairs"
    /\ pair_idx <= Len(kerning.kerns)
    /\ LET r == EmitPairRule(fea, pos_strings, kerning.kerns[pair_idx], kerned_locations)
       IN  /\ fea' = r.fea
           /\ pos_strings' = r.pos_strings
    /\ pair_idx' = pair_idx + 1
    /\ UNCHANGED <<kerning, kern_pc, kerned_locations, kern_run, first_fea>>
    /\ UNCHANGED notKern

\* lines 416-418
CloseFeature ==
    /\ kern_pc = "pairs"
    /\ pair_idx > Len(kerning.kerns)
    /\ fea' = fea \o "} kern;\n"
    /\ kern_pc' = "done"
    /\ UNCHANGED <<kerning, kerned_locations, pos_strings, pair_idx, kern_run, first_fea>>
    /\ UNCHANGED notKern

\* A second call of create_kerning_fea on the same Kerning value.
RunAgain ==
    /\ kern_pc = "done"
    /\ kern_run = 1
    /\ kern_run' = 2
    /\ first_fea' = fea
    /\ fea' = ""
    /\ kerned_locations' = <<>>
    /\ pos_strings' = <<>>
    /\ pair_idx' = 0
    /\ kern_pc' = "start"
    /\ UNCHANGED kerning
    /\ UNCHANGED notKern

KernLocalsIdle ==
    /\ kern_pc = "idle"
    /\ kerned_locations = <<>>
    /\ fea = ""
    /\ pos_strings = <<>>
    /\ pair_idx = 0
    /\ kern_run = 0
    /\ first_fea = ""

KernIdle ==
    /\ kerning = [groups |-> <<>>, kerns |-> <<>>]
    /\ KernLocalsIdle

KernInit ==
    /\ kerning \in Kernings
    /\ kern_pc = "start"
    /\ kerned_locations = <<>>
    /\ fea = ""
    /\ pos_strings = <<>>
    /\ pair_idx = 0
    /\ kern_run = 1
    /\ first_fea = ""

KernNext ==
    \/ CollectLocations
    \/ PushMarker
    \/ EmitGroups
    \/ EmitPair
    \/ CloseFeature
    \/ RunAgain

(***************************************************************************)
(* The file system seen by the resolver and by exec.  A path is the        *)
(* sequence of its components; fs maps the canonical path of every         *)
(* existing node to its kind and content.                                  *)
(***************************************************************************)
None == [some |-> FALSE]
Some(x) == [some |-> TRUE, value |-> x]

Dir == [kind |-> "dir", content |-> "", utf8 |-> TRUE]
File(content) == [kind |-> "file", content |-> content, utf8 |-> TRUE]
BinaryFile == [kind |-> "file", content |-> "", utf8 |-> FALSE]

ProjectDir == <<"project">>

AuthoredText == "feature liga { sub f i by f_i; } liga;\n"
IncludedText == "# shared classes\n"

BaseFs ==
    (<<>> :> Dir) @@ (ProjectDir :> Dir)
    @@ (<<"project", "features.fea">> :> File(AuthoredText))
    @@ (<<"project", "sub">> :> Dir)
    @@ (<<"project", "font.bin">> :> BinaryFile)
    @@ (<<"shared.fea">> :> File(IncludedText))

\* The same tree without the file above the project directory.
SmallFs ==
    (<<>> :> Dir) @@ (ProjectDir :> Dir)
    @@ (<<"project", "features.fea">> :> File(AuthoredText))
    @@ (<<"project", "sub">> :> Dir)

FileSystems == {BaseFs, SmallFs}

\* Path::join
Join(dir, rel) == dir \o rel

RECURSIVE Resolve(_, _, _)
\* Path::canonicalize: every component must exist; ".." steps to the parent.
Resolve(filesystem, done, rest) ==
    IF done \notin DOMAIN filesystem THEN None
    ELSE IF rest = <<>> THEN Some(done)
    ELSE IF filesystem[done].kind # "dir" THEN None
    ELSE IF Head(rest) = ".."
         THEN Resolve(filesystem,
                      IF done = <<>> THEN <<>> ELSE SubSeq(done, 1, Len(done) - 1),
                      Tail(rest))
         ELSE Resolve(filesystem, Append(done, Head(rest)), Tail(rest))

Canonicalize(filesystem, path) == Resolve(filesystem, <<>>, path)

\* Path::is_file
IsFile(filesystem, path) ==
    path \in DOMAIN filesystem /\ filesystem[path].kind = "file"

\* fs::read_to_string
ReadToString(filesystem, path) ==
    IF IsFile(filesystem, path) /\ filesystem[path].utf8
    THEN [ok |-> TRUE, text |-> filesystem[path].content]
    ELSE [ok |-> FALSE, text |-> ""]

(***************************************************************************)
(* InMemoryResolver::get_contents                                          *)
(***************************************************************************)
Contents(text) == [kind |-> "Ok", content |-> text]
SourceLoadError(cause) == [kind |-> "Err", cause |-> cause]

\* A variant that looks at the include directory before the in-memory content.
GetContentsStorageFirst(r, filesystem, rel) ==
    IF ~r.include_dir.some
    THEN IF rel = r.content_path THEN Contents(r.content)
         ELSE SourceLoadError("NoIncludePath")
    ELSE LET path == Canonicalize(filesystem, Join(r.include_dir.value, rel))
         IN  IF ~path.some THEN SourceLoadError("Io")
             ELSE IF ~IsFile(filesystem, path.value) THEN SourceLoadError("FileExpected")
             ELSE Contents(ReadToString(filesystem, path.value).text)

\* A variant that reports a path that does not exist as a missing file.
GetContentsMissingIsFileExpected(r, filesystem, rel) ==
    IF rel = r.content_path THEN Contents(r.content)
    ELSE IF ~r.include_dir.some THEN SourceLoadError("NoIncludePath")
    ELSE LET path == Canonicalize(filesystem, Join(r.include_dir.value, rel))
         IN  IF ~path.some THEN SourceLoadError("FileExpected")
             ELSE IF ~IsFile(filesystem, path.value) THEN SourceLoadError("FileExpected")
             ELSE LET read == ReadToString(filesystem, path.value)
                  IN  IF read.ok THEN Contents(read.text) ELSE SourceLoadError("Io")

\* lines 50-74
GetContents(r, filesystem, rel) ==
    IF rel = r.content_path THEN Contents(r.content)
    ELSE IF ~r.include_dir.some THEN SourceLoadError("NoIncludePath")
    ELSE LET path == Canonicalize(filesystem, Join(r.include_dir.value, rel))
         IN  IF ~path.some THEN SourceLoadError("Io")
             ELSE IF ~IsFile(filesystem, path.value) THEN SourceLoadError("FileExpected")
             ELSE LET read == ReadToString(filesystem, path.value)
                  IN  IF read.ok THEN Contents(read.text) ELSE SourceLoadError("Io")

ContentPaths == { <<>>, <<"features.fea">> }
ResolverContents == { "", GeneratedMarker, AuthoredText \o GeneratedMarker }
IncludeDirs == { None, Some(ProjectDir), Some(<<"project", "sub">>), Some(<<"gone">>) }

RelPaths ==
    { <<>>, <<"features.fea">>, <<"sub">>, <<"missing.fea">>, <<"font.bin">>,
      <<"..", "shared.fea">>, <<"..", "features.fea">>, <<"..", "..", "shared.fea">> }

Resolvers ==
    { [content_path |-> cp, content |-> c, include_dir |-> d] :
        cp \in ContentPaths, c \in ResolverContents, d \in IncludeDirs }

NoRequest == <<"no request">>

\* The compiler asks the resolver for one path.
Request ==
    /\ rel_path = NoRequest
    /\ \E rel \in RelPaths :
          /\ rel_path' = rel
          /\ get_result' = GetContents(resolver, fs, rel)
    /\ UNCHANGED <<fs, resolver>>
    /\ UNCHANGED notResolver

\* The compiler takes the answer; the resolver is ready for the next include.
Answered ==
    /\ rel_path # NoRequest
    /\ rel_path' = NoRequest
    /\ get_result' = [kind |-> "None"]
    /\ UNCHANGED <<fs, resolver>>
    /\ UNCHANGED notResolver

ResolverIdle ==
    /\ fs = BaseFs
    /\ resolver = [content_path |-> <<>>, content |-> "", include_dir |-> None]
    /\ rel_path = NoRequest
    /\ get_result = [kind |-> "None"]

ResolverInit ==
    /\ fs \in FileSystems
    /\ resolver \in Resolvers
    /\ rel_path = NoRequest
    /\ get_result = [kind |-> "None"]

ResolverNext == Request \/ Answered

(***************************************************************************)
(* Features, integrate_kerning and the feature compiler.                   *)
(***************************************************************************)
FeaturesEmpty == [variant |-> "Empty"]
FeaturesFile(fea_file, include_dir) ==
    [variant |-> "File", fea_file |-> fea_file, include_dir |-> include_dir]
FeaturesMemory(fea_content, include_dir) ==
    [variant |-> "Memory", fea_content |-> fea_content, include_dir |-> include_dir]

Merged(f) == [ok |-> TRUE, features |-> f]
IoError == [ok |-> FALSE, error |-> "IoError"]

\* A variant that leaves Features::Empty as it is when the kerning text is
\* only the marker.
IntegrateKerningKeepEmpty(authored, kern_fea, filesystem) ==
    IF authored.variant = "Empty"
    THEN Merged(IF kern_fea = GeneratedMarker THEN FeaturesEmpty
                ELSE FeaturesMemory(kern_fea, None))
    ELSE IF authored.variant = "Memory"
    THEN Merged(FeaturesMemory(authored.fea_content \o kern_fea, authored.include_dir))
    ELSE LET read == ReadToString(filesystem, authored.fea_file)
         IN  IF read.ok
             THEN Merged(FeaturesMemory(read.text \o kern_fea, authored.include_dir))
             ELSE IoError

\* A variant that puts the kerning text in front and drops the include directory.
IntegrateKerningPrepend(authored, kern_fea, filesystem) ==
    IF authored.variant = "Empty"
    THEN Merged(FeaturesMemory(kern_fea, None))
    ELSE IF authored.variant = "Memory"
    THEN Merged(FeaturesMemory(kern_fea \o authored.fea_content, None))
    ELSE LET read == ReadToString(filesystem, authored.fea_file)
         IN  IF read.ok
             THEN Merged(FeaturesMemory(kern_fea \o read.text, None))
             ELSE IoError

\* lines 421-446
IntegrateKerning(authored, kern_fea, filesystem) ==
    IF authored.variant = "Empty"
    THEN Merged(FeaturesMemory(kern_fea, None))
    ELSE IF authored.variant = "Memory"
    THEN Merged(FeaturesMemory(authored.fea_content \o kern_fea, authored.include_dir))
    ELSE LET read == ReadToString(filesystem, authored.fea_file)
         IN  IF read.ok
             THEN Merged(FeaturesMemory(read.text \o kern_fea, authored.include_dir))
             ELSE IoError

RECURSIVE EmitPairs(_, _, _, _)
\* lines 380-415: the loop over kerning.kerns
EmitPairs(text, cache, kerns, locs) ==
    IF kerns = <<>> THEN text
    ELSE LET r == EmitPairRule(text, cache, Head(kerns), locs)
         IN  EmitPairs(r.fea, r.pos_strings, Tail(kerns), locs)

\* A variant without the early return for an empty Kerning.
CreateKerningFeaNoEarlyReturn(k, h) ==
    EmitPairs(GeneratedMarker \o GroupsText(k.groups) \o "\n\n" \o "feature kern {\n",
              <<>>, k.kerns, SortedLocations(h)) \o "} kern;\n"

\* lines 330-419: create_kerning_fea as one call; h is the order the HashSet
\* of kerned locations is iterated in.
CreateKerningFea(k, h) ==
    IF KerningIsEmpty(k) THEN GeneratedMarker
    ELSE EmitPairs(GeneratedMarker \o GroupsText(k.groups) \o "\n\n" \o "feature kern {\n",
                   <<>>, k.kerns, SortedLocations(h)) \o "} kern;\n"

RECURSIVE OnlyCommentsFrom(_, _, _)
OnlyCommentsFrom(text, i, in_comment) ==
    IF i > Len(text) THEN TRUE
    ELSE LET c == SubSeq(text, i, i)
         IN  IF in_comment THEN OnlyCommentsFrom(text, i + 1, c # "\n")
             ELSE IF c = "#" THEN OnlyCommentsFrom(text, i + 1, TRUE)
             ELSE IF c \in {" ", "\n", "\t"} THEN OnlyCommentsFrom(text, i + 1, FALSE)
             ELSE FALSE

\* A feature source with nothing but white space and comments.
EffectivelyEmpty(text) == OnlyCommentsFrom(text, 1, FALSE)

GPOS == "Gpos"
GSUB == "Gsub"
GDEF == "Gdef"
Slots == {GPOS, GSUB, GDEF}

Compiled(tables) == [ok |-> TRUE, tables |-> tables]
FeaCompileError(e) == [ok |-> FALSE, error |-> e]

CompileErrors == {"syntax error", "unknown glyph"}

\* The root source the compiler is given: through InMemoryResolver for
\* Features::Memory (lines 251-257), from the file for Features::File.
RootSource(feats, filesystem) ==
    IF feats.variant = "Memory"
    THEN GetContents([content_path |-> <<>>, content |-> feats.fea_content,
                      include_dir |-> feats.include_dir], filesystem, <<>>)
    ELSE LET read == ReadToString(filesystem, feats.fea_file)
         IN  IF read.ok THEN Contents(read.text) ELSE SourceLoadError("Io")

\* The feature compiler: an error, or up to three tables; a source without
\* any statement compiles to no table.
CompileOutcomes(feats, filesystem) ==
    LET root == RootSource(feats, filesystem)
    IN  IF root.kind = "Err" THEN { FeaCompileError("source load error") }
        ELSE IF EffectivelyEmpty(root.content) THEN { Compiled({}) }
        ELSE { FeaCompileError(e) : e \in CompileErrors }
             \cup { Compiled(t) : t \in SUBSET Slots }

(***************************************************************************)
(* FeatureWork: the declared accesses and exec.                            *)
(***************************************************************************)
EMIT_DEBUG == "EMIT_DEBUG"
EMIT_IR == "EMIT_IR"

\* line 450
WorkIdFeatures == "Features"

\* lines 453-460
ReadAccess == {"GlyphOrder", "StaticMetadata", "Kerning", "Features"}

\* lines 462-468
AlsoCompletes == <<GPOS, GSUB, GDEF>>

NoFeatures == [variant |-> "None"]
NoCompile == [ok |-> FALSE, error |-> "not compiled"]
Running == [kind |-> "None"]
ExecOk == [kind |-> "Ok"]
ExecErr(e) == [kind |-> "Err", error |-> e]

\* A variant of lines 471-473 that also reads the glyphs of the IR.
ReadInputsAndGlyphs ==
    /\ exec_pc = "start"
    /\ ir_reads' = ir_reads \cup {"StaticMetadata", "GlyphOrder", "Kerning", "Glyph"}
    /\ exec_pc' = "merge"
    /\ UNCHANGED <<flags, ir_features, glyph_order, features, compile_result, outputs,
                   debug_fea, marker_file, compile_calls, log, exec_result>>
    /\ UNCHANGED notExec

\* lines 471-473
ReadInputs ==
    /\ exec_pc = "start"
    /\ ir_reads' = ir_reads \cup {"StaticMetadata", "GlyphOrder", "Kerning"}
    /\ exec_pc' = "merge"
    /\ UNCHANGED <<flags, ir_features, glyph_order, features, compile_result, outputs,
                   debug_fea, marker_file, compile_calls, log, exec_result>>
    /\ UNCHANGED notExec

\* lines 475-480: merge the synthesized kerning, or clone the authored features.
MergeKerning ==
    /\ exec_pc = "merge"
    /\ ir_reads' = ir_reads \cup {"Features"}
    /\ IF ~KerningIsEmpty(kerning)
       THEN \E h \in IterationOrders(KernedLocationSet(kerning)) :
               LET m == IntegrateKerning(ir_features, CreateKerningFea(kerning, h), fs)
               IN  IF m.ok
                   THEN /\ features' = m.features
                        /\ exec_pc' = "compile"
                        /\ UNCHANGED exec_result
                   ELSE /\ exec_result' = ExecErr(m.error)
                        /\ exec_pc' = "done"
                        /\ UNCHANGED features
       ELSE /\ features' = ir_features
            /\ exec_pc' = "compile"
            /\ UNCHANGED exec_result
    /\ UNCHANGED <<flags, ir_features, glyph_order, compile_result, outputs, debug_fea,
                   marker_file, compile_calls, log>>
    /\ UNCHANGED notExec

\* A variant of lines 482-490 without the test for Features::Empty.
CompileEmptyToo ==
    /\ exec_pc = "compile"
    /\ IF features.variant # "Empty"
       THEN \E r \in CompileOutcomes(features, fs) : compile_result' = r
       ELSE compile_result' = FeaCompileError("compile isn't supposed to be called for Empty")
    /\ compile_calls' = compile_calls + 1
    /\ exec_pc' = "debug"
    /\ UNCHANGED <<flags, ir_features, glyph_order, features, outputs, debug_fea,
                   marker_file, ir_reads, log, exec_result>>
    /\ UNCHANGED notExec

\* lines 482-490: compile unless the effective features are Empty.
Compile ==
    /\ exec_pc = "compile"
    /\ IF features.variant # "Empty"
       THEN /\ \E r \in CompileOutcomes(features, fs) : compile_result' = r
            /\ compile_calls' = compile_calls + 1
            /\ exec_pc' = "debug"
       ELSE /\ exec_pc' = "marker"
            /\ UNCHANGED <<compile_result, compile_calls>>
    /\ UNCHANGED <<flags, ir_features, glyph_order, features, outputs, debug_fea,
                   marker_file, ir_reads, log, exec_result>>
    /\ UNCHANGED notExec

\* A variant of lines 491-495 in which write_debug_fea does not look at
\* EMIT_DEBUG: the dump is made on a failure or on the flag.
DebugDumpIgnoringFlag ==
    /\ exec_pc = "debug"
    /\ IF /\ (~compile_result.ok \/ EMIT_DEBUG \in flags)
          /\ features.variant = "Memory"
       THEN \E written \in BOOLEAN :
               IF written
               THEN /\ debug_fea' = Some(features.fea_content)
                    /\ log' = Append(log, "debug")
               ELSE /\ log' = Append(log, "debug failed")
                    /\ UNCHANGED debug_fea
       ELSE UNCHANGED <<debug_fea, log>>
    /\ exec_pc' = "unwrap"
    /\ UNCHANGED <<flags, ir_features, glyph_order, features, compile_result, outputs,
                   marker_file, ir_reads, compile_calls, exec_result>>
    /\ UNCHANGED notExec

\* lines 491-495 with write_debug_fea (270-288): the dump needs a failure or
\* the flag, in-memory features and EMIT_DEBUG; a failed write is only logged.
DebugDump ==
    /\ exec_pc = "debug"
    /\ IF /\ (~compile_result.ok \/ EMIT_DEBUG \in flags)
          /\ features.variant = "Memory"
          /\ EMIT_DEBUG \in flags
       THEN \E written \in BOOLEAN :
               IF written
               THEN /\ debug_fea' = Some(features.fea_content)
                    /\ log' = Append(log, "debug")
               ELSE /\ log' = Append(log, "debug failed")
                    /\ UNCHANGED debug_fea
       ELSE UNCHANGED <<debug_fea, log>>
    /\ exec_pc' = "unwrap"
    /\ UNCHANGED <<flags, ir_features, glyph_order, features, compile_result, outputs,
                   marker_file, ir_reads, compile_calls, exec_result>>
    /\ UNCHANGED notExec

\* line 496: result?
UnwrapResult ==
    /\ exec_pc = "unwrap"
    /\ IF compile_result.ok
       THEN /\ exec_pc' = GPOS
            /\ UNCHANGED exec_result
       ELSE /\ exec_result' = ExecErr(compile_result.error)
            /\ exec_pc' = "done"
    /\ UNCHANGED <<flags, ir_features, glyph_order, features, compile_result, outputs,
                   debug_fea, marker_file, ir_reads, compile_calls, log>>
    /\ UNCHANGED notExec

\* A variant that sets the slot whether or not the table is there.
SetAlways(slot) ==
    /\ outputs' = [outputs EXCEPT ![slot] = @ + 1]
    /\ log' = Append(log, slot)

\* `if let Some(table) = result.<slot> { context.<slot>.set_unconditionally(..) }`
SetIfSome(slot) ==
    IF slot \in compile_result.tables
    THEN /\ outputs' = [outputs EXCEPT ![slot] = @ + 1]
         /\ log' = Append(log, slot)
    ELSE UNCHANGED <<outputs, log>>

\* lines 504-506
SetGpos ==
    /\ exec_pc = GPOS
    /\ SetIfSome(GPOS)
    /\ exec_pc' = GSUB
    /\ UNCHANGED <<flags, ir_features, glyph_order, features, compile_result, debug_fea,
                   marker_file, ir_reads, compile_calls, exec_result>>
    /\ UNCHANGED notExec

\* lines 507-509
SetGsub ==
    /\ exec_pc = GSUB
    /\ SetIfSome(GSUB)
    /\ exec_pc' = GDEF
    /\ UNCHANGED <<flags, ir_features, glyph_order, features, compile_result, debug_fea,
                   marker_file, ir_reads, compile_calls, exec_result>>
    /\ UNCHANGED notExec

\* lines 510-512
SetGdef ==
    /\ exec_pc = GDEF
    /\ SetIfSome(GDEF)
    /\ exec_pc' = "marker"
    /\ UNCHANGED <<flags, ir_features, glyph_order, features, compile_result, debug_fea,
                   marker_file, ir_reads, compile_calls, exec_result>>
    /\ UNCHANGED notExec

\* A variant of lines 518-528 that writes the marker whatever the flags.
WriteMarkerIgnoringFlag ==
    /\ exec_pc = "marker"
    /\ \E written \in BOOLEAN :
          IF written
          THEN /\ marker_file' = Some("1")
               /\ log' = Append(log, "marker")
               /\ exec_result' = ExecOk
          ELSE /\ exec_result' = ExecErr("IoError")
               /\ UNCHANGED <<marker_file, log>>
    /\ exec_pc' = "done"
    /\ UNCHANGED <<flags, ir_features, glyph_order, features, compile_result, outputs,
                   debug_fea, ir_reads, compile_calls>>
    /\ UNCHANGED notExec

\* lines 518-528: the completion marker, then Ok(()).
WriteMarker ==
    /\ exec_pc = "marker"
    /\ IF EMIT_IR \in flags
       THEN \E written \in BOOLEAN :
               IF written
               THEN /\ marker_file' = Some("1")
                    /\ log' = Append(log, "marker")
                    /\ exec_result' = ExecOk
               ELSE /\ exec_result' = ExecErr("IoError")
                    /\ UNCHANGED <<marker_file, log>>
       ELSE /\ exec_result' = ExecOk
            /\ UNCHANGED <<marker_file, log>>
    /\ exec_pc' = "done"
    /\ UNCHANGED <<flags, ir_features, glyph_order, features, compile_result, outputs,
                   debug_fea, ir_reads, compile_calls>>
    /\ UNCHANGED notExec

ExecLocalsIdle ==
    /\ flags = {}
    /\ glyph_order = <<>>
    /\ exec_pc = "idle"
    /\ outputs = [slot \in Slots |-> 0]
    /\ debug_fea = None
    /\ marker_file = None
    /\ ir_reads = {}
    /\ compile_calls = 0
    /\ log = <<>>
    /\ exec_result = Running

ExecIdle ==
    /\ ExecLocalsIdle
    /\ ir_features = FeaturesEmpty
    /\ features = NoFeatures
    /\ compile_result = NoCompile

AuthoredFeatures ==
    { FeaturesEmpty,
      FeaturesFile(<<"project", "features.fea">>, None),
      FeaturesFile(<<"project", "features.fea">>, Some(ProjectDir)),
      FeaturesFile(<<"project", "missing.fea">>, Some(ProjectDir)),
      FeaturesMemory(AuthoredText, None),
      FeaturesMemory(AuthoredText, Some(ProjectDir)),
      FeaturesMemory(IncludedText, None) }

OnePairKerning ==
    [groups |-> << [name |-> GroupV, members |-> <<"V">>] >>,
     kerns  |-> << Pair(<<Glyph("A"), Group(GroupV)>>,
                        (L2(2, 0) :> 7) @@ (L2(1, 2) :> -5)) >>]

ExecKernings ==
    { [groups |-> <<>>, kerns |-> <<>>],
      [groups |-> << [name |-> GroupV, members |-> <<"V">>] >>, kerns |-> <<>>],
      OnePairKerning }

GlyphOrders == { <<>>, <<"A", "V">> }

ExecInit ==
    /\ flags \in SUBSET {EMIT_DEBUG, EMIT_IR}
    /\ ir_features \in AuthoredFeatures
    /\ glyph_order \in GlyphOrders
    /\ exec_pc = "start"
    /\ features = NoFeatures
    /\ compile_result = NoCompile
    /\ outputs = [slot \in Slots |-> 0]
    /\ debug_fea = None
    /\ marker_file = None
    /\ ir_reads = {}
    /\ compile_calls = 0
    /\ log = <<>>
    /\ exec_result = Running

ExecNext ==
    \/ ReadInputs
    \/ MergeKerning
    \/ Compile
    \/ DebugDump
    \/ UnwrapResult
    \/ SetGpos
    \/ SetGsub
    \/ SetGdef
    \/ WriteMarker

(***************************************************************************)
(* The synthesized text handed on: integrate_kerning applied to the text   *)
(* create_kerning_fea returned, and the merged source compiled.            *)
(***************************************************************************)
\* create_kerning_fea(&kerning) called as a whole.
Synthesize ==
    /\ kern_pc = "call"
    /\ \E h \in IterationOrders(KernedLocationSet(kerning)) :
          fea' = CreateKerningFea(kerning, h)
    /\ kern_pc' = "done"
    /\ UNCHANGED <<kerning, kerned_locations, pos_strings, pair_idx, kern_run, first_fea>>
    /\ UNCHANGED notKern

\* integrate_kerning(&features, kern_fea) on the text above.
IntegrateSynthesized ==
    /\ kern_pc = "done"
    /\ LET m == IntegrateKerning(ir_features, fea, fs)
       IN  IF m.ok
           THEN /\ features' = m.features
                /\ kern_pc' = "merged"
                /\ UNCHANGED exec_result
           ELSE /\ exec_result' = ExecErr(m.error)
                /\ kern_pc' = "failed"
                /\ UNCHANGED features
    /\ UNCHANGED <<kerning, kerned_locations, fea, pos_strings, pair_idx, kern_run, first_fea>>
    /\ UNCHANGED <<flags, ir_features, glyph_order, exec_pc, compile_result, outputs,
                   debug_fea, marker_file, ir_reads, compile_calls, log>>
    /\ UNCHANGED <<metricVars, resolverVars>>

\* The merged features compiled.
CompileMerged ==
    /\ kern_pc = "merged"
    /\ \E r \in CompileOutcomes(features, fs) : compile_result' = r
    /\ kern_pc' = "compiled"
    /\ UNCHANGED <<kerning, kerned_locations, fea, pos_strings, pair_idx, kern_run, first_fea>>
    /\ UNCHANGED <<flags, ir_features, glyph_order, exec_pc, features, outputs,
                   debug_fea, marker_file, ir_reads, compile_calls, log, exec_result>>
    /\ UNCHANGED <<metricVars, resolverVars>>

MergeInit ==
    /\ kerning \in ExecKernings
    /\ kern_pc = "call"
    /\ kerned_locations = <<>>
    /\ fea = ""
    /\ pos_strings = <<>>
    /\ pair_idx = 0
    /\ kern_run = 0
    /\ first_fea = ""
    /\ ir_features \in AuthoredFeatures
    /\ features = NoFeatures
    /\ compile_result = NoCompile
    /\ ExecLocalsIdle
    /\ fs \in FileSystems
    /\ resolver = [content_path |-> <<>>, content |-> "", include_dir |-> None]
    /\ rel_path = NoRequest
    /\ get_result = [kind |-> "None"]

MergeNext ==
    \/ Synthesize
    \/ IntegrateSynthesized
    \/ CompileMerged

(***************************************************************************)
(* Properties of create_kerning_fea (checked under SpecKern, C7 under      *)
(* SpecMerge).                                                             *)
(***************************************************************************)
StartsWith(text, prefix) ==
    Len(text) >= Len(prefix) /\ SubSeq(text, 1, Len(prefix)) = prefix

Contains(text, pat) ==
    \E i \in 1..(Len(text) - Len(pat) + 1) : SubSeq(text, i, i + Len(pat) - 1) = pat

GlyphWithGroup(pair) ==
    \/ (pair.p1.kind = "Glyph" /\ pair.p2.kind = "Group")
    \/ (pair.p1.kind = "Group" /\ pair.p2.kind = "Glyph")

\* C5: the rule emitted for a kerning pair starts with `enum ` exactly when
\* one participant is a glyph and the other a group; glyph-glyph and
\* group-group rules start with `pos`.
C5_EnumerationRule ==
    [][ (kern_pc = "pairs" /\ pair_idx' = pair_idx + 1) =>
          LET pair == kerning.kerns[pair_idx]
              rule == SubSeq(fea', Len(fea) + 1, Len(fea'))
          IN  /\ SubSeq(fea', 1, Len(fea)) = fea
              /\ GlyphWithGroup(pair) <=> StartsWith(rule, "  enum pos ")
              /\ ~GlyphWithGroup(pair) <=> StartsWith(rule, "  pos ")
      ]_vars

C5_Witness ==
    /\ kern_pc = "done"
    /\ Len(kerning.kerns) = 2
    /\ kerning.kerns[1].p1.kind = "Group"
    /\ kerning.kerns[1].p2.kind = "Group"
    /\ kerning.kerns[2].p1.kind = "Glyph"
    /\ kerning.kerns[2].p2.kind = "Group"
    /\ Contains(fea, "  pos @public.kern1.A @public.kern2.V (")
    /\ Contains(fea, "  enum pos A @public.kern2.V (")

\* The step-by-step text is the text of the call as a whole.
StepsAgreeWithCall ==
    kern_pc = "done" =>
        \E h \in IterationOrders(KernedLocationSet(kerning)) :
            fea = CreateKerningFea(kerning, h)

C7_EmptyKerning ==
    KerningIsEmpty(kerning) =>
        /\ kern_pc \in {"done", "merged", "compiled"} =>
              /\ fea = "\n\n# fontc generated kerning\n\n"
              /\ ~Contains(fea, "feature kern")
              /\ ~Contains(fea, "@")
        /\ (ir_features = FeaturesEmpty /\ kern_pc \in {"merged", "compiled"}) =>
              /\ features.variant = "Memory"
              /\ features.fea_content = "\n\n# fontc generated kerning\n\n"
              /\ ~features.include_dir.some
              /\ EffectivelyEmpty(features.fea_content)
        /\ (ir_features = FeaturesEmpty /\ kern_pc = "compiled") =>
              /\ compile_result.ok
              /\ compile_result.tables = {}

C7_Witness ==
    /\ kern_pc = "compiled"
    /\ kerning.kerns = <<>>
    /\ kerning.groups # <<>>
    /\ ir_features = FeaturesEmpty
    /\ compile_result = Compiled({})

(***************************************************************************)
(* Properties of InMemoryResolver::get_contents (checked under             *)
(* SpecResolver).                                                          *)
(***************************************************************************)
Requested == rel_path # NoRequest

\* C8: the root path (content_path) always yields the in-memory content,
\* include directory or not, whatever the storage holds; any other path
\* without an include directory fails with the no-include-directory error.
C8_RootAndNoIncludeDir ==
    Requested =>
        /\ rel_path = resolver.content_path =>
              (get_result.kind = "Ok" /\ get_result.content = resolver.content)
        /\ (rel_path # resolver.content_path /\ ~resolver.include_dir.some) =>
              (get_result.kind = "Err" /\ get_result.cause = "NoIncludePath")

C8_Witness ==
    /\ Requested
    /\ rel_path = <<"features.fea">>
    /\ resolver.content_path = rel_path
    /\ resolver.include_dir = Some(ProjectDir)
    /\ IsFile(fs, <<"project", "features.fea">>)
    /\ fs[<<"project", "features.fea">>].content # resolver.content
    /\ get_result = Contents(resolver.content)

IsPrefix(a, b) == Len(a) <= Len(b) /\ SubSeq(b, 1, Len(a)) = a

\* The canonical path of the request under the include directory.
Target == Canonicalize(fs, Join(resolver.include_dir.value, rel_path))

IncludeRequest ==
    Requested /\ rel_path # resolver.content_path /\ resolver.include_dir.some

\* C9 as stated: a path outside the include directory, a directory or a path
\* that does not exist fails with the file-expected error; content comes only
\* from an existing regular file.
C9_OutsideOrNotAFile ==
    IncludeRequest =>
        /\ (\/ ~Target.some
            \/ ~IsFile(fs, Target.value)
            \/ ~IsPrefix(resolver.include_dir.value, Target.value)) =>
              (get_result.kind = "Err" /\ get_result.cause = "FileExpected")
        /\ get_result.kind = "Ok" => (Target.some /\ IsFile(fs, Target.value))

\* C9, amended: the file-expected error is returned exactly when the joined
\* path canonicalizes to something that exists and is not a regular file; a
\* path that does not exist fails with the I/O error of canonicalize; content
\* comes only from an existing regular file, inside the include directory or
\* not.
C9_FileExpectedForNonFiles ==
    IncludeRequest =>
        /\ (get_result.kind = "Err" /\ get_result.cause = "FileExpected")
              <=> (Target.some /\ ~IsFile(fs, Target.value))
        /\ ~Target.some => (get_result.kind = "Err" /\ get_result.cause = "Io")
        /\ get_result.kind = "Ok" =>
              /\ Target.some
              /\ IsFile(fs, Target.value)
              /\ get_result.content = fs[Target.value].content

C9_Witness ==
    /\ IncludeRequest
    /\ rel_path = <<"sub">>
    /\ resolver.include_dir = Some(ProjectDir)
    /\ get_result = SourceLoadError("FileExpected")

\* A file above the include directory is served.
C9_OutsideWitness ==
    /\ IncludeRequest
    /\ rel_path = <<"..", "shared.fea">>
    /\ resolver.include_dir = Some(ProjectDir)
    /\ get_result = Contents(IncludedText)

(***************************************************************************)
(* Properties of integrate_kerning and exec (checked under SpecExec).      *)
(***************************************************************************)
\* The text create_kerning_fea gives for OnePairKerning.
OnePairKerningFea ==
    "\n\n# fontc generated kerning\n\n"
    \o "@public.kern2.V = [V];\n"
    \o "\n\n"
    \o "feature kern {\n"
    \o "  enum pos A @public.kern2.V (wdth=0n,wght=1n:7 wdth=1n,wght=0.5n:-5);\n"
    \o "} kern;\n"

FileReadable(f) == f \in DOMAIN fs /\ fs[f].kind = "file" /\ fs[f].utf8

AuthoredTextOf(f) ==
    IF f.variant = "Empty" THEN ""
    ELSE IF f.variant = "Memory" THEN f.fea_content
    ELSE fs[f.fea_file].content

AuthoredIncludeDir(f) == IF f.variant = "Empty" THEN None ELSE f.include_dir

\* C10: the merge of every Features variant gives Features::Memory holding the
\* authored text followed by the kerning text, with the authored include
\* directory (none for Empty); the authored Features is left as it was; an
\* unreadable feature file gives an I/O error and no Features; with empty
\* kerning the effective features are the authored ones.
C10_IntegrateKerning ==
    [][ /\ ir_features' = ir_features
        /\ exec_pc = "merge" =>
              IF KerningIsEmpty(kerning)
              THEN features' = ir_features /\ exec_pc' = "compile"
              ELSE IF ir_features.variant = "File" /\ ~FileReadable(ir_features.fea_file)
              THEN /\ exec_result' = ExecErr("IoError")
                   /\ features' = NoFeatures
                   /\ exec_pc' = "done"
              ELSE /\ features'.variant = "Memory"
                   /\ features'.fea_content = AuthoredTextOf(ir_features) \o OnePairKerningFea
                   /\ features'.include_dir = AuthoredIncludeDir(ir_features)
                   /\ exec_pc' = "compile"
      ]_vars

C10_Witness ==
    /\ exec_pc = "compile"
    /\ ~KerningIsEmpty(kerning)
    /\ ir_features = FeaturesFile(<<"project", "features.fea">>, Some(ProjectDir))
    /\ features = FeaturesMemory(AuthoredText \o OnePairKerningFea, Some(ProjectDir))

\* exec has returned.
ExecReturned == exec_pc = "done"

\* The compiler ran and gave a Compilation.
CompileSucceeded == compile_calls > 0 /\ compile_result.ok

\* The compiler ran and gave an error.
CompileFailed == compile_calls > 0 /\ ~compile_result.ok

\* C11: in a run each output slot is set at most once; once exec is past the
\* three sets, a slot is set exactly when the compile succeeded and returned
\* that table; a failed compile or an earlier failure leaves every slot unset.
C11_OutputWrites ==
    /\ \A slot \in Slots :
          /\ outputs[slot] <= 1
          /\ outputs[slot] = 1 => (CompileSucceeded /\ slot \in compile_result.tables)
    /\ (exec_pc \in {"marker", "done"} /\ CompileSucceeded) =>
          \A slot \in Slots : (outputs[slot] = 1) <=> (slot \in compile_result.tables)
    /\ (ExecReturned /\ ~CompileSucceeded) => \A slot \in Slots : outputs[slot] = 0

C11_Witness ==
    /\ ExecReturned
    /\ compile_result = Compiled({GPOS, GDEF})
    /\ outputs = [Gpos |-> 1, Gsub |-> 0, Gdef |-> 1]
    /\ log = <<GPOS, GDEF>>

\* write_debug_fea got as far as fs::write.
DumpAttempted == \E i \in 1..Len(log) : log[i] \in {"debug", "debug failed"}

\* exec is past lines 491-495 of a run that called the compiler.
PastDebug ==
    /\ compile_calls > 0
    /\ exec_pc \in {"unwrap", GPOS, GSUB, GDEF, "marker", "done"}

\* C12 as stated: a compile failure is returned unchanged and the merged
\* source has been dumped before exec returns; the dump is made on a compile
\* failure or on the debug flag.
C12_DumpOnCompileFailure ==
    /\ (ExecReturned /\ CompileFailed) =>
          /\ exec_result = ExecErr(compile_result.error)
          /\ DumpAttempted
    /\ (PastDebug /\ (CompileFailed \/ EMIT_DEBUG \in flags)) => DumpAttempted

\* C12, amended: a compile failure is returned unchanged; the dump is made
\* exactly when EMIT_DEBUG is set and the compiled features are in memory,
\* whether the compile failed or not, and holds the compiled text; without
\* the flag a failure dumps nothing; a failed dump changes no result.
C12_DumpNeedsDebugFlag ==
    /\ (ExecReturned /\ CompileFailed) => exec_result = ExecErr(compile_result.error)
    /\ PastDebug =>
          (DumpAttempted <=> (EMIT_DEBUG \in flags /\ features.variant = "Memory"))
    /\ compile_calls = 0 => ~DumpAttempted
    /\ debug_fea.some =>
          /\ features.variant = "Memory"
          /\ debug_fea = Some(features.fea_content)
    /\ (ExecReturned /\ CompileSucceeded /\ EMIT_IR \notin flags) => exec_result = ExecOk

C12_Witness ==
    /\ ExecReturned
    /\ CompileFailed
    /\ EMIT_DEBUG \notin flags
    /\ features.variant = "Memory"
    /\ ~DumpAttempted
    /\ ~debug_fea.some
    /\ exec_result = ExecErr("syntax error")

\* With the flag, a failed compile is dumped, and a failed dump is only logged.
C12_FailedDumpWitness ==
    /\ ExecReturned
    /\ CompileFailed
    /\ EMIT_DEBUG \in flags
    /\ log = <<"debug failed">>
    /\ exec_result = ExecErr(compile_result.error)

MarkerWritten == marker_file.some

\* Feature compilation completed: the effective features are Empty, or the
\* compiler gave a Compilation.
CompilationCompleted ==
    /\ features # NoFeatures
    /\ features.variant = "Empty" \/ CompileSucceeded

\* C13: with EMIT_IR set, a run whose compilation completed (with any number
\* of tables, or with Empty features) ends with the marker "1" written, or
\* with an I/O error if the write failed; the marker is the last write of the
\* run, after every table set; it is never written after a failed compile or
\* a failed merge, and never with the flag off.
C13_CompletionMarker ==
    /\ MarkerWritten =>
          /\ EMIT_IR \in flags
          /\ marker_file = Some("1")
          /\ CompilationCompleted
          /\ exec_result = ExecOk
          /\ log # <<>> /\ log[Len(log)] = "marker"
          /\ \A i \in 1..(Len(log) - 1) : log[i] # "marker"
          /\ CompileSucceeded =>
                \A slot \in Slots : (outputs[slot] = 1) <=> (slot \in compile_result.tables)
    /\ (ExecReturned /\ EMIT_IR \in flags /\ CompilationCompleted) =>
          \/ MarkerWritten
          \/ exec_result = ExecErr("IoError")
    /\ (ExecReturned /\ ~CompilationCompleted) => ~MarkerWritten
    /\ EMIT_IR \notin flags => ~MarkerWritten

C13_Witness ==
    /\ ExecReturned
    /\ EMIT_IR \in flags
    /\ compile_result = Compiled({GPOS, GSUB})
    /\ log = <<GPOS, GSUB, "marker">>
    /\ marker_file = Some("1")
    /\ exec_result = ExecOk

\* The marker of a run with Empty features.
C13_EmptyWitness ==
    /\ ExecReturned
    /\ features = FeaturesEmpty
    /\ compile_calls = 0
    /\ log = <<"marker">>

\* The marker of a run that produced no table.
C13_NoTableWitness ==
    /\ ExecReturned
    /\ compile_result = Compiled({})
    /\ compile_calls = 1
    /\ MarkerWritten

\* A failed marker write.
C13_FailedWriteWitness ==
    /\ ExecReturned
    /\ CompileSucceeded
    /\ ~MarkerWritten
    /\ exec_result = ExecErr("IoError")

\* The work ids also_completes names.
DeclaredOutputs == { AlsoCompletes[i] : i \in 1..Len(AlsoCompletes) }

\* The writes exec made to output slots, in order.
SlotWrites == SelectSeq(log, LAMBDA w : w \notin {"debug", "debug failed", "marker"})

\* C14: the declared read set is glyph order, static metadata, kerning and
\* authored features; the declared outputs are the three tables under the id
\* Features; exec reads no IR entry outside the read set and sets no output
\* outside the declared ones.
C14_DeclaredAccess ==
    /\ WorkIdFeatures = "Features"
    /\ ReadAccess = {"GlyphOrder", "StaticMetadata", "Kerning", "Features"}
    /\ Len(AlsoCompletes) = 3
    /\ DeclaredOutputs = {"Gpos", "Gsub", "Gdef"}
    /\ ir_reads \subseteq ReadAccess
    /\ \A i \in 1..Len(SlotWrites) : SlotWrites[i] \in DeclaredOutputs
    /\ \A slot \in DOMAIN outputs : outputs[slot] > 0 => slot \in DeclaredOutputs

C14_Witness ==
    /\ ExecReturned
    /\ ir_reads = {"GlyphOrder", "StaticMetadata", "Kerning", "Features"}
    /\ SlotWrites = <<"Gpos", "Gsub", "Gdef">>
    /\ exec_result = ExecOk

\* Kerning::is_empty and authored Features::Empty: Empty throughout.
EmptyThroughout == KerningIsEmpty(kerning) /\ ir_features = FeaturesEmpty

\* exec is past the test of line 482.
PastCompile == exec_pc \in {"debug", "unwrap", GPOS, GSUB, GDEF, "marker", "done"}

\* What C15 says of the compiler calls and the writes.
CompilerCalls ==
    /\ compile_calls <= 1
    /\ EmptyThroughout =>
          /\ compile_calls = 0
          /\ compile_result = NoCompile
          /\ \A slot \in Slots : outputs[slot] = 0
          /\ ~debug_fea.some
          /\ ~DumpAttempted
    /\ (PastCompile /\ features # NoFeatures /\ features.variant \in {"File", "Memory"}) =>
          compile_calls = 1
    /\ (features # NoFeatures /\ features.variant = "Empty") => compile_calls = 0

\* C15 as stated: with Empty throughout the compiler is never called, nothing
\* is written, and no error occurs; with File or Memory features the compiler
\* is called exactly once.
C15_EmptyNoError ==
    /\ CompilerCalls
    /\ EmptyThroughout =>
          /\ exec_result.kind # "Err"
          /\ ExecReturned => exec_result = ExecOk

\* C15, amended: as above, and the one error a run with Empty throughout can
\* return is the I/O error of a failed marker write under EMIT_IR.
C15_EmptyNoCompile ==
    /\ CompilerCalls
    /\ (EmptyThroughout /\ ExecReturned) =>
          \/ exec_result = ExecOk
          \/ /\ EMIT_IR \in flags
             /\ ~MarkerWritten
             /\ exec_result = ExecErr("IoError")
    /\ (EmptyThroughout /\ ExecReturned /\ EMIT_IR \notin flags) => exec_result = ExecOk

C15_Witness ==
    /\ ExecReturned
    /\ EmptyThroughout
    /\ kerning.groups # <<>>
    /\ features = FeaturesEmpty
    /\ compile_calls = 0
    /\ exec_result = ExecOk

\* The compiler called once for features in a file.
C15_FileWitness ==
    /\ ExecReturned
    /\ features.variant = "File"
    /\ compile_calls = 1

(***************************************************************************)
(* The location list of create_kerning_fea (checked under SpecKern).       *)
(***************************************************************************)
\* Every location any pair has a value at.
LocationUnion == UNION { DOMAIN kerning.kerns[i].values : i \in 1..Len(kerning.kerns) }

\* The union as the one list in the locations' order.
CanonicalLocations ==
    CHOOSE seq \in [1..Cardinality(LocationUnion) -> LocationUnion] :
        \A i, j \in 1..Cardinality(LocationUnion) : i < j => LocLess(seq[i], seq[j])

RECURSIVE ExpectedEntries(_, _)
\* `<loc>:<value>` for every location of locs, separated by one space; the
\* value is the pair's own there, else 0.
ExpectedEntries(vals, locs) ==
    IF locs = <<>> THEN ""
    ELSE LocString(Head(locs)) \o ":"
         \o (IF Head(locs) \in DOMAIN vals THEN ToString(vals[Head(locs)]) ELSE "0")
         \o (IF Len(locs) > 1 THEN " " ELSE "")
         \o ExpectedEntries(vals, Tail(locs))

\* `[enum ]pos <p1> <p2> (<loc>:<value> ...);`
ExpectedRule(pair) ==
    "  " \o (IF GlyphWithGroup(pair) THEN "enum " ELSE "")
         \o "pos " \o Identifier(pair.p1) \o " " \o Identifier(pair.p2)
         \o " (" \o ExpectedEntries(pair.values, CanonicalLocations) \o ");\n"

RECURSIVE ExpectedRules(_)
ExpectedRules(kerns) ==
    IF kerns = <<>> THEN "" ELSE ExpectedRule(Head(kerns)) \o ExpectedRules(Tail(kerns))

EndsWith(text, suffix) ==
    /\ Len(text) >= Len(suffix)
    /\ SubSeq(text, Len(text) - Len(suffix) + 1, Len(text)) = suffix

Occurrences(text, pat) ==
    Cardinality({ i \in 1..(Len(text) - Len(pat) + 1) : SubSeq(text, i, i + Len(pat) - 1) = pat })

\* The text ends with one kern block holding one rule per pair, in the stored
\* pair order, each listing the canonical locations.
OneRulePerPair ==
    /\ EndsWith(fea, "feature kern {\n" \o ExpectedRules(kerning.kerns) \o "} kern;\n")
    /\ Occurrences(fea, "feature kern {") = 1
    /\ Occurrences(fea, "} kern;") = 1

C17_LocationListWhenValued ==
    (kern_pc = "done" /\ LocationUnion # {}) => OneRulePerPair

\* Two pairs with values at different locations: each rule lists both.
C17_TwoLocationsWitness ==
    /\ kern_pc = "done"
    /\ Contains(fea, "  pos A V (wdth=0n,wght=1n:7 wdth=1n,wght=0.5n:0);\n")
    /\ Contains(fea, "  enum pos A @public.kern2.V (wdth=0n,wght=1n:0 wdth=1n,wght=0.5n:-5);\n")

\* Pairs without any value: the rule has lost its opening parenthesis.
C17_NoValueWitness ==
    /\ kern_pc = "done"
    /\ Len(kerning.kerns) = 1
    /\ LocationUnion = {}
    /\ EndsWith(fea, "feature kern {\n  pos A V );\n} kern;\n")

(***************************************************************************)
(* Rounding in resolve_variable_metric (checked under SpecMetric).         *)
(***************************************************************************)
\* The unrounded default: the sum of weight x unrounded delta over the regions
\* with a non-zero weight at the model's default location.
UnroundedDefault ==
    FSum(DefaultTerms(deltas, static_metadata.variation_model.default))

\* r is x rounded to the nearest integer with ties rounded up, floor(x + 1/2),
\* and brought into the i16 range.
RoundedHalfUp(x, r) ==
    LET twice == 2 * x[1] + x[2]
    IN  /\ r \in I16Min..I16Max
        /\ r > I16Min => 2 * r * x[2] <= twice
        /\ r < I16Max => twice < 2 * (r + 1) * x[2]

\* C16 as stated: the default is the unrounded sum rounded once, each returned
\* delta is its region's unrounded delta rounded on its own, and ties are
\* rounded away from zero.
C16_RoundsHalfAwayFromZero ==
    rvm_pc = "ok" =>
        /\ rvm_result.default = RoundHalfAwayI16(UnroundedDefault)
        /\ \A k \in 1..Len(rvm_result.deltas) :
              rvm_result.deltas[k].delta = RoundHalfAwayI16(NonDefault(deltas)[k].value)

\* C16, amended: the same, with ties rounded up (toward positive infinity)
\* and the result brought into the i16 range.
C16_RoundsOnceHalfUp ==
    rvm_pc = "ok" =>
        /\ RoundedHalfUp(UnroundedDefault, rvm_result.default)
        /\ Len(rvm_result.deltas) = Len(NonDefault(deltas))
        /\ \A k \in 1..Len(rvm_result.deltas) :
              RoundedHalfUp(NonDefault(deltas)[k].value, rvm_result.deltas[k].delta)

\* A returned delta of -1 for an unrounded delta of -3/2, beside a positive tie.
C16_Witness ==
    /\ rvm_pc = "ok"
    /\ \E k \in 1..Len(rvm_result.deltas) :
          /\ NonDefault(deltas)[k].value = <<-3, 2>>
          /\ rvm_result.deltas[k].delta = -1

\* A positive tie: 1/2 is returned as 1.
C16_PositiveTieWitness ==
    /\ rvm_pc = "ok"
    /\ \E k \in 1..Len(rvm_result.deltas) :
          /\ NonDefault(deltas)[k].value = <<1, 2>>
          /\ rvm_result.deltas[k].delta = 1

(***************************************************************************)
(* Specifications.                                                         *)
(***************************************************************************)
InitMetric == MetricInit /\ KernIdle /\ ResolverIdle /\ ExecIdle

\* resolve_variable_metric on every input map and variation model.
SpecMetric == InitMetric /\ [][MetricNext]_vars

InitKern == KernInit /\ MetricIdle /\ ResolverIdle /\ ExecIdle

\* create_kerning_fea, step by step, run twice on every Kerning value.
SpecKern == InitKern /\ [][KernNext]_vars

InitMerge == MergeInit /\ MetricIdle

\* create_kerning_fea, integrate_kerning and the compiler, one after the other.
SpecMerge == InitMerge /\ [][MergeNext]_vars

InitResolver == ResolverInit /\ MetricIdle /\ KernIdle /\ ExecIdle

\* InMemoryResolver::get_contents on every resolver, file system and path.
SpecResolver == InitResolver /\ [][ResolverNext]_vars

InitExec ==
    /\ ExecInit
    /\ kerning \in ExecKernings
    /\ KernLocalsIdle
    /\ MetricIdle
    /\ ResolverIdle

\* FeatureWork::exec on every context.
SpecExec == InitExec /\ [][ExecNext]_vars

====
